---------------------------- MODULE Spec2Model ----------------------------
(* A model of the iframe scanner (src/comprehensive_iframe_scanner.py):     *)
(* the recursive frame discovery, the text search over the discovered       *)
(* frames, and scan_page around them, against a browser whose documents,    *)
(* frame contexts and element handles are modelled explicitly.              *)
EXTENDS Integers, Sequences, FiniteSets, TLC

(***************************************************************************)
(* Bounds of the model and constants of the program                        *)
(***************************************************************************)
\* faults (driver exceptions) the browser may raise during one behaviour
MaxFaults == 2
\* calls of scan_page on one scanner object (rescan scenario)
MaxScans == 2
\* nesting of the deepest chain document
MaxChain == 12
\* the recursion ceiling of _discover_all_iframes: "if depth > 10"
MaxDepth == 10
\* the entries of search_strategies
NumStrategies == 6
\* elements one query returns in the lone search pass
MaxHits == 2

(***************************************************************************)
(* Strings.  A label or a path step is a record (kind, text, number), so    *)
(* that f"id='{x}'", f"iframe_{i}" and "iframe[2]" are distinct values      *)
(* that compare by content.                                                 *)
(***************************************************************************)
Lbl(k, s, n) == [k |-> k, s |-> s, n |-> n]
\* an argument that is None, the empty string, or a string v
None == [none |-> TRUE, empty |-> FALSE, v |-> "None"]
EmptyStr == [none |-> FALSE, empty |-> TRUE, v |-> ""]
Str(v) == [none |-> FALSE, empty |-> FALSE, v |-> v]
\* "if x:" on a str-or-None argument
Truthy(x) == ~x.none /\ ~x.empty
MainPage == Lbl("main_page", "", 0)
\* the empty step that str.split('/') yields before a leading '/'
EmptySeg == Lbl("", "", 0)
Last(s) == s[Len(s)]
Front(s) == SubSeq(s, 1, Len(s) - 1)

(***************************************************************************)
(* The browser's documents.  A frame element is named by its position:     *)
(* <<2>> is the second frame of the top-level document, <<2, 1>> the first  *)
(* frame of the document inside it.  A browsing context is named by the     *)
(* frame that holds it; <<>> is the top-level document.                     *)
(***************************************************************************)
Ones(n) == [i \in 1..n |-> 1]
Doc(kind, n) == [kind |-> kind, n |-> n]
Blank == Doc("about:blank", 0)

Nodes(d) ==
  CASE d.kind = "empty"  -> {}
    [] d.kind = "flat"   -> {<<1>>, <<2>>}
    [] d.kind = "dup"    -> {<<1>>, <<2>>}
    [] d.kind = "nested" -> {<<1>>, <<1, 1>>, <<1, 2>>, <<2>>}
    [] d.kind = "deep"   -> {<<1>>, <<1, 1>>, <<1, 1, 1>>, <<1, 1, 2>>, <<1, 2>>, <<2>>}
    [] d.kind = "chain"  -> {Ones(k) : k \in 1..d.n}
    [] OTHER             -> {}

NoAttr == [id |-> "", name |-> "", src |-> <<>>, tag |-> "iframe"]
\* src is kept as its '/'-separated pieces
Attr(d, f) ==
  CASE d.kind = "flat" /\ f = <<1>>     -> [NoAttr EXCEPT !.id = "a"]
    [] d.kind = "flat" /\ f = <<2>>     -> [NoAttr EXCEPT !.name = "n"]
    [] d.kind = "dup"                   -> [NoAttr EXCEPT !.id = "a"]
    [] d.kind = "nested" /\ f = <<1>>   -> [NoAttr EXCEPT !.src = <<"http:", "", "h", "outer.html">>]
    [] d.kind = "nested" /\ f = <<1, 2>> -> [NoAttr EXCEPT !.name = "n"]
    [] d.kind = "nested" /\ f = <<2>>   -> [NoAttr EXCEPT !.id = "a"]
    [] d.kind = "deep" /\ f = <<2>>     -> [NoAttr EXCEPT !.tag = "frame"]
    [] OTHER                            -> NoAttr

\* the contexts whose document holds the searched text
HasText(d, c) ==
  CASE d.kind = "empty"  -> c = <<>>
    [] d.kind = "flat"   -> c \in {<<1>>, <<2>>}
    [] d.kind = "dup"    -> c = <<1>>
    [] d.kind = "nested" -> c \in {<<1>>, <<1, 1>>}
    [] d.kind = "deep"   -> c \in {<<>>, <<1>>, <<1, 1>>}
    [] d.kind = "chain"  -> c = <<1>> \/ Len(c) = d.n
    [] OTHER             -> FALSE

TreeDocs == {Doc("empty", 0), Doc("flat", 0), Doc("dup", 0), Doc("nested", 0), Doc("deep", 0)}
ChainDocs == {Doc("chain", n) : n \in (MaxChain - 1)..MaxChain}
SmallDocs == {Doc("empty", 0), Doc("flat", 0)}

\* frames of context c in document order
Kids(d, c) ==
  LET n == Cardinality({f \in Nodes(d) : Len(f) = Len(c) + 1 /\ Front(f) = c})
  IN  [k \in 1..n |-> Append(c, k)]


(***************************************************************************)
(* The driver (selenium).  Commands act on the active browsing context; an  *)
(* element handle is usable only while the context that holds the element   *)
(* is the active one, any other use raises (stale element / no such frame). *)
(***************************************************************************)
Usable(c, f) == Front(f) = c
\* driver.switch_to.parent_frame(): one level up, a no-op in the top-level document
ParentFrame(c) == IF c = <<>> THEN <<>> ELSE Front(c)
\* driver.switch_to.default_content()
DefaultContent == <<>>
StaleMsg == "Message: stale element reference"
NoFrameMsg == "Message: no such frame"

\* what the driver may be made to do wrong at one frame element
Faults == {"none", "attr", "xpath", "tag", "switch"}

(***************************************************************************)
(* _discover_all_iframes and its helpers                                   *)
(***************************************************************************)
\* find_elements(TAG_NAME, "iframe") + find_elements(TAG_NAME, "frame")
AllFrames(d, c) ==
  LET IsIframe(f) == Attr(d, f).tag = "iframe"
      IsFrame(f) == Attr(d, f).tag = "frame"
  IN  SelectSeq(Kids(d, c), IsIframe) \o SelectSeq(Kids(d, c), IsFrame)

\* the guard at the head of _discover_all_iframes
DepthExceededAt(depth) == depth >= MaxDepth
DepthExceeded(depth) == depth > MaxDepth

\* 1-based position of f among the siblings of its tag (the script's ix + 1)
SiblingIndex(d, f) ==
  Cardinality({g \in Nodes(d) : /\ Len(g) = Len(f)
                                /\ Front(g) = Front(f)
                                /\ Attr(d, g).tag = Attr(d, f).tag
                                /\ Last(g) <= Last(f)})

FallbackXPath == <<EmptySeg, EmptySeg, Lbl("iframe", "", 0)>>
\* _generate_element_xpath, as the pieces of xpath.split('/'): "//*[@id='a']"
\* for an element with an id, else the positional path the script builds
\* (el.pos, e.g. "/html/body/iframe[2]"), or "//iframe" when the script fails
GenerateElementXPath(el, scriptOk) ==
  IF ~scriptOk THEN FallbackXPath
  ELSE IF el.id # ""
       THEN <<EmptySeg, EmptySeg, Lbl("*[@id=]", el.id, 0)>>
       ELSE el.pos

\* the frame element f as the script sees it: a child of body
FrameElement(d, f) ==
  [id |-> Attr(d, f).id,
   pos |-> <<EmptySeg, Lbl("html", "", 0), Lbl("body", "", 0),
             Lbl(Attr(d, f).tag, "", SiblingIndex(d, f))>>]

\* _get_frame_identifier (src pieces here are shorter than the 20 characters kept)
GetFrameIdentifier(d, f, index) ==
  IF Attr(d, f).id # "" THEN Lbl("id=", Attr(d, f).id, 0)
  ELSE IF Attr(d, f).name # "" THEN Lbl("name=", Attr(d, f).name, 0)
  ELSE IF Attr(d, f).src # <<>> THEN Lbl("src=", Last(Attr(d, f).src), 0)
  ELSE Lbl("iframe_", "", index)

\* the hierarchy_path of a frame record built under current_path
HierarchyPath(current_path, label) == Append(current_path, label)

\* the path handed to the nested call: current_path + [xpath.split('/')[-1]]
NestedPathSame(current_path, xpath) == current_path
NestedPath(current_path, xpath) == Append(current_path, Last(xpath))

\* IframeInfo (title and class_name, two more attributes copied like src, are
\* left out); node, scan and fault record which element the record was built
\* for, in which call of scan_page, and what the driver was made to do wrong
IframeInfo(index, id, name, src, xpath, path, acc, err, f, scan, fault) ==
  [index |-> index, id |-> id, name |-> name, src |-> src, xpath |-> xpath,
   hierarchy_path |-> path, is_accessible |-> acc, error_message |-> err,
   content_preview |-> "", text_found |-> <<>>,
   node |-> f, scan |-> scan, fault |-> fault]

\* _extract_iframe_info, in context c, of handle f
ExtractIframeInfo(d, c, f, index, current_path, fault, scan) ==
  IF ~Usable(c, f) \/ fault = "attr"
  THEN IframeInfo(index, "", "", <<>>, <<EmptySeg>>,
                  HierarchyPath(current_path, Lbl("iframe_", "", index)),
                  FALSE, StaleMsg, f, scan, fault)
  ELSE IframeInfo(index, Attr(d, f).id, Attr(d, f).name, Attr(d, f).src,
                  GenerateElementXPath(FrameElement(d, f), fault # "xpath"),
                  HierarchyPath(current_path, GetFrameIdentifier(d, f, index)),
                  fault # "tag", "", f, scan, fault)

\* _get_content_preview: never raises, never empty
GetContentPreview(d, c) == IF HasText(d, c) THEN "Content: text" ELSE "Content: "

\* the finally clause of the frame loop: "Always switch back to parent"
SwitchBackSkipped(c) == c
SwitchBack(c) == ParentFrame(c)

\* the activation record of one call of _discover_all_iframes: its arguments,
\* all_frames, the loop position i, and home: the context it enumerated
Activation(depth, path, d, c) ==
  [depth |-> depth, current_path |-> path, all_frames |-> AllFrames(d, c),
   i |-> 0, home |-> c]


(***************************************************************************)
(* _search_in_current_context                                              *)
(***************************************************************************)
\* one element as a strategy's query returns it: read says whether tag_name
\* and text can be read, script whether the locator script runs
Hit(el, read, script) == [el |-> el, read |-> read, script |-> script]

\* "already_found": a match with this element_xpath is in found_elements
AlreadyFoundNever(found, xp) == FALSE
AlreadyFound(found, xp) == \E j \in 1..Len(found) : found[j].element_xpath = xp

\* the dict appended to found_elements; eid and ctx record which element it
\* is and the browsing context the query ran in
MatchRecordZeroBased(location_path, i, h, search_text, c) ==
  [location_path |-> location_path, strategy_used |-> Lbl("Strategy ", "", i - 1),
   element_xpath |-> GenerateElementXPath(h.el, h.script),
   tag_name |-> h.el.tag, element_text |-> h.el.text, found_text |-> search_text,
   eid |-> h.el.eid, ctx |-> c]
MatchRecord(location_path, i, h, search_text, c) ==
  [location_path |-> location_path, strategy_used |-> Lbl("Strategy ", "", i),
   element_xpath |-> GenerateElementXPath(h.el, h.script),
   tag_name |-> h.el.tag, element_text |-> h.el.text, found_text |-> search_text,
   eid |-> h.el.eid, ctx |-> c]

\* one round of "for element in elements" under strategy i (1-based): an
\* element that cannot be read is skipped, one whose locator was seen is dropped
HandleElementReset(found, i, h, search_text, location_path, c) ==
  IF ~h.read THEN <<>>
  ELSE IF ~AlreadyFound(found, GenerateElementXPath(h.el, h.script))
  THEN Append(found, MatchRecord(location_path, i, h, search_text, c))
  ELSE found
HandleElement(found, i, h, search_text, location_path, c) ==
  IF h.read /\ ~AlreadyFound(found, GenerateElementXPath(h.el, h.script))
  THEN Append(found, MatchRecord(location_path, i, h, search_text, c))
  ELSE found

\* the inner loop over the elements of strategy i
RECURSIVE ProcessElements(_, _, _, _, _, _)
ProcessElements(found, i, hits, search_text, location_path, c) ==
  IF hits = <<>> THEN found
  ELSE ProcessElements(HandleElement(found, i, Head(hits), search_text, location_path, c),
                       i, Tail(hits), search_text, location_path, c)

\* one round of the strategy loop: res.ok says whether find_elements ran
StrategyStep(found, i, res, search_text, location_path, c) ==
  IF res.ok THEN ProcessElements(found, i, res.hits, search_text, location_path, c)
  ELSE found

RECURSIVE StrategyLoop(_, _, _, _, _, _)
StrategyLoop(found, i, results, search_text, location_path, c) ==
  IF i > Len(results) THEN found
  ELSE StrategyLoop(StrategyStep(found, i, results[i], search_text, location_path, c),
                    i + 1, results, search_text, location_path, c)

\* _search_in_current_context, given what the six queries return
SearchInCurrentContext(results, search_text, location_path, c) ==
  StrategyLoop(<<>>, 1, results, search_text, location_path, c)

(***************************************************************************)
(* The page content the scan searches: a document with the text holds it   *)
(* in one paragraph, <html><body><p>text</p>...                             *)
(***************************************************************************)
Element(eid, tag, id, text, pos) ==
  [eid |-> eid, tag |-> tag, id |-> id, text |-> text, pos |-> pos]
\* document.id is undefined, so the script's walk from <html> ends in
\* "//*[@id='undefined']/html[1]"
HtmlEl == Element("html", "html", "", "text",
                  <<EmptySeg, EmptySeg, Lbl("*[@id=]", "undefined", 0), Lbl("html", "", 1)>>)
BodyEl == Element("body", "body", "", "text",
                  <<EmptySeg, Lbl("html", "", 0), Lbl("body", "", 0)>>)
ParEl == Element("p", "p", "", "text",
                 <<EmptySeg, Lbl("html", "", 0), Lbl("body", "", 0), Lbl("p", "", 1)>>)
Found(els) == [ok |-> TRUE, hits |-> [j \in 1..Len(els) |-> Hit(els[j], TRUE, TRUE)]]
\* what the six queries return in context c: the paragraph's own text matches
\* strategies 1 to 4, no attribute matches, and strategy 6 also returns the
\* paragraph's ancestors
QueryResults(d, c) ==
  IF HasText(d, c)
  THEN <<Found(<<ParEl>>), Found(<<ParEl>>), Found(<<ParEl>>), Found(<<ParEl>>),
         Found(<<>>), Found(<<HtmlEl, BodyEl, ParEl>>)>>
  ELSE [j \in 1..NumStrategies |-> Found(<<>>)]

(***************************************************************************)
(* _navigate_to_iframe                                                     *)
(***************************************************************************)
TopFrames(d) == Kids(d, <<>>)
\* find_element in the top-level document: the first element that matches, as
\* a sequence of at most one handle (empty: NoSuchElementException)
First(hs) == IF hs = <<>> THEN <<>> ELSE <<Head(hs)>>
ById(d, id) ==
  LET T(f) == Attr(d, f).id = id IN First(SelectSeq(TopFrames(d), T))
ByName(d, name) ==
  LET T(f) == Attr(d, f).name = name IN First(SelectSeq(TopFrames(d), T))
ByXPath(d, xp) ==
  LET T(f) == \/ xp = FrameElement(d, f).pos
              \/ xp = FallbackXPath /\ Attr(d, f).tag = "iframe"
  IN  First(SelectSeq(TopFrames(d), T))

\* the element the record is looked up by: id, else name, else xpath
LocateIframe(d, info) ==
  IF info.id # "" THEN ById(d, info.id)
  ELSE IF info.name # "" THEN ByName(d, info.name)
  ELSE ByXPath(d, info.xpath)

\* _return_to_main_context, from context c
ReturnToMainContextSkipped(c) == c
ReturnToMainContext(c) == DefaultContent

\* the context after _navigate_to_iframe, and whether it raised
NavigateToIframe(d, info, switchOk) ==
  LET at == LocateIframe(d, info)
  IN  IF at # <<>> /\ switchOk
      THEN [raised |-> FALSE, ctx |-> at[1]]
      ELSE [raised |-> TRUE, ctx |-> DefaultContent]


(***************************************************************************)
(* _generate_report                                                        *)
(***************************************************************************)
IframeDetailUncounted(r) ==
  [hierarchy_path |-> r.hierarchy_path, id |-> r.id, name |-> r.name,
   src |-> r.src, xpath |-> r.xpath, is_accessible |-> r.is_accessible,
   error_message |-> r.error_message, content_preview |-> r.content_preview,
   text_found_count |-> 0, node |-> r.node, scan |-> r.scan,
   fault |-> r.fault]
IframeDetail(r) ==
  [hierarchy_path |-> r.hierarchy_path, id |-> r.id, name |-> r.name,
   src |-> r.src, xpath |-> r.xpath, is_accessible |-> r.is_accessible,
   error_message |-> r.error_message, content_preview |-> r.content_preview,
   text_found_count |-> Len(r.text_found), node |-> r.node, scan |-> r.scan,
   fault |-> r.fault]
\* search_results is <<>> for "no bundle" (None, or the {} of __init__)
GenerateReportMiscount(recs, results, search_text) ==
  LET Acc(r) == r.is_accessible
  IN  [scan_summary |-> [total_iframes_found |-> Len(recs),
                         accessible_iframes |-> Len(SelectSeq(recs, Acc)),
                         inaccessible_iframes |-> Len(recs)],
       iframe_details |-> [j \in 1..Len(recs) |-> IframeDetail(recs[j])],
       search_results |-> IF Truthy(search_text) THEN results ELSE <<>>]
GenerateReport(recs, results, search_text) ==
  LET Acc(r) == r.is_accessible
      Inacc(r) == ~r.is_accessible
  IN  [scan_summary |-> [total_iframes_found |-> Len(recs),
                         accessible_iframes |-> Len(SelectSeq(recs, Acc)),
                         inaccessible_iframes |-> Len(SelectSeq(recs, Inacc))],
       iframe_details |-> [j \in 1..Len(recs) |-> IframeDetail(recs[j])],
       search_results |-> IF Truthy(search_text) THEN results ELSE <<>>]

(***************************************************************************)
(* The state of one scanner object and its browser                         *)
(***************************************************************************)
VARIABLES
  web,                 \* the documents the browser can be sent to
  scans_left,          \* calls of scan_page still to come
  page,                \* the document loaded in the browser
  ctx,                 \* the active browsing context
  discovered_iframes,  \* self.discovered_iframes
  search_results,      \* self.search_results
  stack,               \* the activations of _discover_all_iframes, innermost last
  pc,                  \* where scan_page stands
  k,                   \* records the loop of _search_text_everywhere has passed
  call,                \* the arguments of the running (or last) scan_page
  outcome,             \* how the last scan_page ended
  report,              \* what it returned
  issued,              \* the driver commands issued since scan_page was called
  faults,              \* faults raised so far
  scan_no,             \* calls of scan_page so far
  search_pc,           \* where a lone call of _search_in_current_context stands
  strategy,            \* the strategy that call is at (1-based, 0 before the first)
  found_elements,      \* its found_elements
  seen,                \* the elements the running query has returned so far
  page_dom,            \* the content of the page a search pass runs over
  query,               \* the search_text of that pass
  todo,                \* the elements of the running query still to be handled
  returned,            \* which query has returned which element so far
  failures,            \* the kinds of driver failure that pass has met
  session,             \* scan_sessions: <<>>, or the one session's entry
  registered,          \* whether active_scanners holds the session's scanner
  thread,              \* where run_scan_background stands
  scanner,             \* its local variable scanner: "None" or "made"
  driver,              \* the scanner's browser: "none", "live" or "quit"
  quits,               \* the driver.quit() commands issued
  stop_pc,             \* where a running stop_scan request stands
  stops_left,          \* stop_scan requests still to come
  response,            \* the last response to a status or results request
  main_pc,             \* where main() stands
  main_url,            \* its local variable url
  main_search_text,    \* its local variable search_text
  dom_pc,              \* where find_iframe_xpaths_in_dom stands
  dom_html_source,     \* the markup it is called with, as the tree html.parser builds
  dom_search_text,     \* its argument search_text
  dom_todo,            \* the frames its loop has still to pass
  dom_matches,         \* its list matches
  dom_hits             \* the frames the paths of matches were computed for

vars == <<web, scans_left, page, ctx, discovered_iframes, search_results, stack,
          pc, k, call, outcome, report, issued, faults, scan_no,
          search_pc, strategy, found_elements, seen,
          page_dom, query, todo, returned, failures,
          session, registered, thread, scanner, driver, quits, stop_pc,
          stops_left, response,
          main_pc, main_url, main_search_text,
          dom_pc, dom_html_source, dom_search_text, dom_todo, dom_matches,
          dom_hits>>
pass_vars == <<search_pc, strategy, found_elements, seen>>
scanner_vars == <<page, ctx, discovered_iframes, search_results, stack, pc, k,
                  call, outcome, report, issued, scan_no>>
query_vars == <<page_dom, query, todo, returned, failures>>
\* what the actions of scan_page, and those of the lone search pass, leave alone
app_vars == <<session, registered, thread, scanner, driver, quits, stop_pc,
              stops_left, response>>
\* what the actions of scan_page, those of the lone search pass, and those of
\* the search pass over a known page leave alone
main_vars == <<main_pc, main_url, main_search_text>>
dom_vars == <<dom_pc, dom_html_source, dom_search_text, dom_todo, dom_matches,
              dom_hits>>
not_scan_vars == <<pass_vars, query_vars, app_vars, main_vars, dom_vars>>
not_pass_vars == <<scanner_vars, query_vars, app_vars, main_vars, dom_vars>>
not_query_vars == <<scanner_vars, app_vars, main_vars, dom_vars>>

Top == stack[Len(stack)]
NoCall == [given |-> FALSE, search_text |-> None]

\* ComprehensiveIframeScanner.__init__ with a started browser
ScannerInit ==
  /\ page = Blank
  /\ ctx = DefaultContent
  /\ discovered_iframes = <<>>
  /\ search_results = <<>>
  /\ stack = <<>>
  /\ pc = "idle"
  /\ k = 0
  /\ call = NoCall
  /\ outcome = "none"
  /\ report = <<>>
  /\ issued = {}
  /\ faults = 0
  /\ scan_no = 0

\* no call of _search_in_current_context on its own is under way
PassInit ==
  /\ search_pc = "idle"
  /\ strategy = 0
  /\ found_elements = <<>>
  /\ seen = {}
  /\ page_dom = <<>>
  /\ query = <<>>
  /\ todo = <<>>
  /\ returned = {}
  /\ failures = {}

\* web_app.py serves no session
NoResponse == [request |-> "none", code |-> 0, status |-> "", results |-> <<>>]
AppInit ==
  /\ session = <<>>
  /\ registered = FALSE
  /\ thread = "none"
  /\ scanner = "None"
  /\ driver = "none"
  /\ quits = 0
  /\ stop_pc = "idle"
  /\ response = NoResponse

\* find_iframe_xpaths_in_dom is not running
NoDom ==
  /\ dom_pc = "none"
  /\ dom_html_source = <<>>
  /\ dom_search_text = <<>>
  /\ dom_todo = <<>>
  /\ dom_matches = <<>>
  /\ dom_hits = <<>>

\* main() is not running
NoMain ==
  /\ main_pc = "none"
  /\ main_url = None
  /\ main_search_text = None

\* a scanner used for one scan of a tree or chain document, or used again and
\* again on small documents
Init ==
  /\ web \in {TreeDocs, ChainDocs, SmallDocs}
  /\ scans_left = IF web = SmallDocs THEN MaxScans ELSE 1
  /\ ScannerInit
  /\ PassInit
  /\ AppInit
  /\ stops_left = 0
  /\ NoMain
  /\ NoDom


(***************************************************************************)
(* scan_page                                                               *)
(***************************************************************************)
\* the branch scan_page takes: "if url: ... elif html_source: ... else: raise"
InputKindLax(url, html_source) ==
  IF Truthy(url) THEN "url" ELSE "html"
InputKind(url, html_source) ==
  IF Truthy(url) THEN "url"
  ELSE IF Truthy(html_source) THEN "html"
  ELSE "none"

\* what the model keeps of the arguments: whether a url or a source was given,
\* and the search text
Arguments(url, html_source, search_text) ==
  [given |-> Truthy(url) \/ Truthy(html_source), search_text |-> search_text]

\* scan_page(url, html_source, search_text) up to the first element of the
\* frame loop at depth 0, or to its end when it raises before.  d is the
\* document the url or the source stands for, loadOk whether driver.get works.
ScanPage(url, html_source, search_text, d, loadOk) ==
  /\ pc = "idle"
  /\ scans_left > 0
  /\ loadOk \/ faults < MaxFaults
  /\ scans_left' = scans_left - 1
  /\ scan_no' = scan_no + 1
  /\ call' = Arguments(url, html_source, search_text)
  /\ UNCHANGED not_scan_vars
  /\ UNCHANGED <<web, discovered_iframes, search_results, k, report>>
  /\ IF InputKind(url, html_source) = "none"
     THEN \* ValueError; finally: _return_to_main_context()
          /\ outcome' = "ValueError"
          /\ ctx' = DefaultContent
          /\ issued' = {"default_content"}
          /\ UNCHANGED <<page, stack, pc, faults>>
     ELSE IF ~loadOk
     THEN \* driver.get raises; finally: _return_to_main_context()
          /\ outcome' = "WebDriverException"
          /\ ctx' = DefaultContent
          /\ issued' = {"get", "default_content"}
          /\ faults' = faults + 1
          /\ UNCHANGED <<page, stack, pc>>
     ELSE \* the page loads; _discover_all_iframes() enumerates the top level
          /\ outcome' = "running"
          /\ page' = d
          /\ ctx' = DefaultContent
          /\ issued' = {"get", "find_elements"}
          /\ stack' = <<Activation(0, <<MainPage>>, d, DefaultContent)>>
          /\ pc' = "discover"
          /\ UNCHANGED faults

\* one round of "for i, frame in enumerate(all_frames)" in the innermost
\* activation, up to the next round or into the nested call
ProcessFrame(fault) ==
  /\ pc = "discover"
  /\ Top.i < Len(Top.all_frames)
  /\ fault = "none" \/ faults < MaxFaults
  /\ LET f == Top.all_frames[Top.i + 1]
         info == ExtractIframeInfo(page, ctx, f, Top.i, Top.current_path, fault, scan_no)
         advanced == [stack EXCEPT ![Len(stack)].i = @ + 1]
     IN  /\ Usable(ctx, f) \/ fault = "none"
         /\ faults' = IF fault = "none" THEN faults ELSE faults + 1
         /\ IF ~info.is_accessible
            THEN /\ discovered_iframes' = Append(discovered_iframes, info)
                 /\ stack' = advanced
                 /\ issued' = issued \cup {"get_attribute"}
                                  \cup (IF fault = "tag"
                                        THEN {"execute_script", "tag_name"} ELSE {})
                 /\ UNCHANGED ctx
            ELSE IF fault # "switch"
            THEN \* switch_to.frame(frame) worked
                 /\ discovered_iframes' = Append(discovered_iframes,
                        [info EXCEPT !.content_preview = GetContentPreview(page, f)])
                 /\ issued' = issued \cup {"get_attribute", "execute_script", "tag_name",
                                           "switch_to.frame", "title", "find_element"}
                                  \cup (IF DepthExceeded(Top.depth + 1)
                                        THEN {"parent_frame"} ELSE {"find_elements"})
                 /\ IF DepthExceeded(Top.depth + 1)
                    THEN \* the nested call returns at once; finally
                         /\ ctx' = SwitchBack(f)
                         /\ stack' = advanced
                    ELSE /\ ctx' = f
                         /\ stack' = Append(stack,
                                Activation(Top.depth + 1,
                                           NestedPath(Top.current_path, info.xpath),
                                           page, f))
            ELSE \* switch_to.frame(frame) raised; except, finally
                 /\ discovered_iframes' = Append(discovered_iframes,
                        [info EXCEPT !.is_accessible = FALSE,
                                     !.error_message = NoFrameMsg])
                 /\ ctx' = SwitchBack(ctx)
                 /\ stack' = advanced
                 /\ issued' = issued \cup {"get_attribute", "execute_script", "tag_name",
                                           "switch_to.frame", "parent_frame"}
  /\ UNCHANGED not_scan_vars
  /\ UNCHANGED <<web, scans_left, page, search_results, pc, k, call, outcome,
                 report, scan_no>>

\* the innermost activation has passed its last element: it returns into the
\* caller's finally clause, and the caller's loop moves on
ReturnNested ==
  /\ pc = "discover"
  /\ Len(stack) > 1
  /\ Top.i = Len(Top.all_frames)
  /\ ctx' = SwitchBack(ctx)
  /\ stack' = [Front(stack) EXCEPT ![Len(stack) - 1].i = @ + 1]
  /\ issued' = issued \cup {"parent_frame"}
  /\ UNCHANGED not_scan_vars
  /\ UNCHANGED <<web, scans_left, page, discovered_iframes, search_results, pc,
                 k, call, outcome, report, faults, scan_no>>

\* the call at depth 0 returns to scan_page
DiscoverReturn ==
  /\ pc = "discover"
  /\ Len(stack) = 1
  /\ Top.i = Len(Top.all_frames)
  /\ stack' = <<>>
  /\ pc' = "discovered"
  /\ UNCHANGED not_scan_vars
  /\ UNCHANGED <<web, scans_left, page, ctx, discovered_iframes, search_results,
                 k, call, outcome, report, issued, faults, scan_no>>

\* "if search_text:" is false
SkipSearch ==
  /\ pc = "discovered"
  /\ ~Truthy(call.search_text)
  /\ pc' = "report"
  /\ UNCHANGED not_scan_vars
  /\ UNCHANGED <<web, scans_left, page, ctx, discovered_iframes, search_results,
                 stack, k, call, outcome, report, issued, faults, scan_no>>

\* _search_text_everywhere up to its loop: the results are reset and the main
\* page is searched
SearchMain ==
  /\ pc = "discovered"
  /\ Truthy(call.search_text)
  /\ LET main_results ==
           SearchInCurrentContext(QueryResults(page, DefaultContent),
                                  call.search_text, <<MainPage>>, DefaultContent)
     IN  search_results' = <<[search_text |-> call.search_text,
                              total_locations_found |-> Len(main_results),
                              locations |-> main_results]>>
  /\ ctx' = DefaultContent
  /\ issued' = issued \cup {"default_content", "find_elements"}
  /\ k' = 0
  /\ pc' = "search"
  /\ UNCHANGED not_scan_vars
  /\ UNCHANGED <<web, scans_left, page, discovered_iframes, stack, call, outcome,
                 report, faults, scan_no>>

\* one round of "for iframe_info in self.discovered_iframes"
SearchFrame(switchOk) ==
  /\ pc = "search"
  /\ k < Len(discovered_iframes)
  /\ k' = k + 1
  /\ LET info == discovered_iframes[k + 1]
         nav == NavigateToIframe(page, info, switchOk)
         iframe_results ==
           SearchInCurrentContext(QueryResults(page, nav.ctx), call.search_text,
                                  info.hierarchy_path, nav.ctx)
         old == search_results[1]
     IN  IF ~info.is_accessible
         THEN /\ switchOk
              /\ UNCHANGED <<ctx, discovered_iframes, search_results, issued, faults>>
         ELSE /\ switchOk \/ (faults < MaxFaults /\ LocateIframe(page, info) # <<>>)
              /\ faults' = IF switchOk THEN faults ELSE faults + 1
              /\ ctx' = ReturnToMainContext(nav.ctx)
              /\ issued' = issued \cup {"default_content", "find_element"}
                               \cup (IF LocateIframe(page, info) # <<>>
                                     THEN {"switch_to.frame"} ELSE {})
                               \cup (IF nav.raised THEN {} ELSE {"find_elements"})
              /\ IF nav.raised \/ iframe_results = <<>>
                 THEN UNCHANGED <<discovered_iframes, search_results>>
                 ELSE /\ discovered_iframes' =
                           [discovered_iframes EXCEPT ![k + 1].text_found = iframe_results]
                      /\ search_results' =
                           <<[old EXCEPT !.locations = @ \o iframe_results,
                                         !.total_locations_found = @ + Len(iframe_results)]>>
  /\ UNCHANGED not_scan_vars
  /\ UNCHANGED <<web, scans_left, page, stack, pc, call, outcome, report,
                 scan_no>>

\* the loop of _search_text_everywhere is over
SearchDone ==
  /\ pc = "search"
  /\ k = Len(discovered_iframes)
  /\ pc' = "report"
  /\ UNCHANGED not_scan_vars
  /\ UNCHANGED <<web, scans_left, page, ctx, discovered_iframes, search_results,
                 stack, k, call, outcome, report, issued, faults, scan_no>>

\* _generate_report, return, and the finally clause of scan_page
Report ==
  /\ pc = "report"
  /\ report' = <<GenerateReport(discovered_iframes, search_results, call.search_text)>>
  /\ outcome' = "returned"
  /\ ctx' = DefaultContent
  /\ issued' = issued \cup {"default_content"}
  /\ pc' = "idle"
  /\ UNCHANGED not_scan_vars
  /\ UNCHANGED <<web, scans_left, page, discovered_iframes, search_results, stack,
                 k, call, faults, scan_no>>

\* the arguments tried: no url or source (None or ""), or one that stands for
\* a document of the web; no search text, or the text "q"
Absent == {None, EmptyStr}
SearchTexts == {None, Str("q")}

Next ==
  \/ \E d \in web, t \in SearchTexts, ok \in BOOLEAN :
       \/ ScanPage(Str("url"), None, t, d, ok)
       \/ \E u \in Absent : ScanPage(u, Str("html"), t, d, ok)
  \/ \E u \in Absent, h \in Absent, t \in SearchTexts \cup {EmptyStr} :
       ScanPage(u, h, t, Blank, TRUE)
  \/ \E fault \in Faults : ProcessFrame(fault)
  \/ ReturnNested
  \/ DiscoverReturn
  \/ SkipSearch
  \/ SearchMain
  \/ \E ok \in BOOLEAN : SearchFrame(ok)
  \/ SearchDone
  \/ Report

Spec == Init /\ [][Next]_vars



(***************************************************************************)
(* A call of _search_in_current_context on its own, in the top-level       *)
(* document, where each of the six queries may return any elements of the   *)
(* page in any order, or fail.                                              *)
(***************************************************************************)
\* the page's elements: two that share an id (so share a locator) and two
\* without an id
PassElements ==
  {Element("div1", "div", "x", "text", <<>>),
   Element("span1", "span", "x", "", <<>>),
   ParEl, BodyEl}
\* an element as a query returns it: readable with a working script, readable
\* with a failing script, or unreadable (the script is then never run)
PassHits ==
  {Hit(e, TRUE, TRUE) : e \in PassElements}
    \cup {Hit(e, TRUE, FALSE) : e \in PassElements}
    \cup {Hit(e, FALSE, TRUE) : e \in PassElements}
FaultOf(h) == IF h.read /\ h.script THEN 0 ELSE 1

\* _search_in_current_context("q", ["main_page"]) is called
SearchCall ==
  /\ search_pc \in {"idle", "returned"}
  /\ search_pc' = "strategies"
  /\ strategy' = 0
  /\ found_elements' = <<>>
  /\ seen' = {}
  /\ UNCHANGED <<web, scans_left, faults>>
  /\ UNCHANGED not_pass_vars

\* "for i, xpath in enumerate(search_strategies)": find_elements runs the next
\* query, or raises and the strategy is skipped
RunQuery(ok) ==
  /\ search_pc = "strategies"
  /\ strategy < NumStrategies
  /\ ok \/ faults < MaxFaults
  /\ faults' = IF ok THEN faults ELSE faults + 1
  /\ strategy' = strategy + 1
  /\ search_pc' = IF ok THEN "elements" ELSE "strategies"
  /\ seen' = {}
  /\ UNCHANGED <<web, scans_left, found_elements>>
  /\ UNCHANGED not_pass_vars

\* one round of "for element in elements": the query's next element is h
ElementRound(h) ==
  /\ search_pc = "elements"
  /\ Cardinality(seen) < MaxHits
  /\ h.el.eid \notin seen
  /\ faults + FaultOf(h) <= MaxFaults
  /\ faults' = faults + FaultOf(h)
  /\ seen' = seen \cup {h.el.eid}
  /\ found_elements' = HandleElement(found_elements, strategy, h, Str("q"),
                                     <<MainPage>>, DefaultContent)
  /\ UNCHANGED <<web, scans_left, search_pc, strategy>>
  /\ UNCHANGED not_pass_vars

\* the query returned no further element
ElementsDone ==
  /\ search_pc = "elements"
  /\ search_pc' = "strategies"
  /\ seen' = {}
  /\ UNCHANGED <<web, scans_left, faults, strategy, found_elements>>
  /\ UNCHANGED not_pass_vars

\* "return found_elements"
SearchReturn ==
  /\ search_pc = "strategies"
  /\ strategy = NumStrategies
  /\ search_pc' = "returned"
  /\ UNCHANGED <<web, scans_left, faults, strategy, found_elements, seen>>
  /\ UNCHANGED not_pass_vars

SearchInit ==
  /\ web = {}
  /\ scans_left = 0
  /\ ScannerInit
  /\ PassInit
  /\ AppInit
  /\ stops_left = 0
  /\ NoMain
  /\ NoDom

SearchNext ==
  \/ SearchCall
  \/ \E ok \in BOOLEAN : RunQuery(ok)
  \/ \E h \in PassHits : ElementRound(h)
  \/ ElementsDone
  \/ SearchReturn

SpecSearch == SearchInit /\ [][SearchNext]_vars


(***************************************************************************)
(* The six queries of _search_in_current_context over the content of a     *)
(* page.  A string is its sequence of characters.                           *)
(***************************************************************************)
\* element.text[:100]
SnippetLen == 100
LowerChar(ch) == IF ch = "A" THEN "a" ELSE IF ch = "B" THEN "b" ELSE ch
\* str.lower(), and translate(., 'ABC...', 'abc...') of the fourth query
Lower(s) == [j \in 1..Len(s) |-> LowerChar(s[j])]
\* XPath contains(s, t)
Contains(s, t) ==
  \E j \in 0..(Len(s) - Len(t)) : SubSeq(s, j + 1, j + Len(t)) = t
IsSpace(ch) == ch = " "
RECURSIVE LStrip(_)
LStrip(s) == IF s # <<>> /\ IsSpace(Head(s)) THEN LStrip(Tail(s)) ELSE s
RECURSIVE TakeWord(_)
TakeWord(s) ==
  IF s = <<>> \/ IsSpace(Head(s)) THEN <<>> ELSE <<Head(s)>> \o TakeWord(Tail(s))
\* search_text.split()[0] if search_text.split() else search_text
FirstWord(s) == IF LStrip(s) = <<>> THEN s ELSE TakeWord(LStrip(s))
Truncate(s, n) == SubSeq(s, 1, IF Len(s) < n THEN Len(s) ELSE n)

\* the text of the six queries that matters: the kind of test and its operand
SearchStrategiesThirdFolded(search_text) ==
  <<[test |-> "text()=", arg |-> search_text],
    [test |-> "contains(text())", arg |-> search_text],
    [test |-> "contains(translate(text()))", arg |-> Lower(FirstWord(search_text))],
    [test |-> "contains(translate(text()))", arg |-> Lower(search_text)],
    [test |-> "attributes", arg |-> search_text],
    [test |-> "contains(.)", arg |-> search_text]>>
SearchStrategies(search_text) ==
  <<[test |-> "text()=", arg |-> search_text],
    [test |-> "contains(text())", arg |-> search_text],
    [test |-> "contains(text())", arg |-> FirstWord(search_text)],
    [test |-> "contains(translate(text()))", arg |-> Lower(search_text)],
    [test |-> "attributes", arg |-> search_text],
    [test |-> "contains(.)", arg |-> search_text]>>

\* A page is the sequence of its elements in document order; an element has
\* a parent (0: the document), its own text nodes (which here precede its child
\* elements), and the three attributes the fifth query looks at, each <<>>
\* when absent and <<value>> when present.
NoAttrs == [title |-> <<>>, alt |-> <<>>, placeholder |-> <<>>]
Node(eid, tag, id, parent, texts, attrs) ==
  [eid |-> eid, tag |-> tag, id |-> id, parent |-> parent, texts |-> texts,
   attrs |-> attrs]
Root == <<Node("html", "html", "", 0, <<>>, NoAttrs),
          Node("body", "body", "", 1, <<>>, NoAttrs)>>
Qa == <<"A">>
Qab == <<"A", " ", "b">>
\* <p>A b</p>
PlainPage == Root \o <<Node("p", "p", "", 2, <<Qab>>, NoAttrs)>>
\* <img alt="A b"><a title="A">a b</a>
AttrPage ==
  Root \o <<Node("img", "img", "", 2, <<>>, [NoAttrs EXCEPT !.alt = <<Qab>>]),
            Node("a", "a", "", 2, <<<<"a", " ", "b">>>>, [NoAttrs EXCEPT !.title = <<Qa>>])>>
\* <p id="x">A</p><input id="x" placeholder="A">
DupIdPage ==
  Root \o <<Node("p", "p", "x", 2, <<Qa>>, NoAttrs),
            Node("input", "input", "x", 2, <<>>, [NoAttrs EXCEPT !.placeholder = <<Qa>>])>>
\* <div>b<span>A</span></div>
NestedPage ==
  Root \o <<Node("div", "div", "", 2, <<<<"b">>>>, NoAttrs),
            Node("span", "span", "", 3, <<Qa>>, NoAttrs)>>
Pages == {PlainPage, AttrPage, DupIdPage, NestedPage}
Queries == {Qa, Qab}

RECURSIVE Flatten(_)
Flatten(ss) == IF ss = <<>> THEN <<>> ELSE Head(ss) \o Flatten(Tail(ss))
ChildElements(dom, j) ==
  LET T(c) == dom[c].parent = j IN SelectSeq([c \in 1..Len(dom) |-> c], T)
\* the XPath string-value of element j: the text of its descendants
RECURSIVE StringValue(_, _)
StringValue(dom, j) ==
  LET kids == ChildElements(dom, j)
  IN  Flatten(dom[j].texts) \o Flatten([c \in 1..Len(kids) |-> StringValue(dom, kids[c])])
\* string(text()): the first text node child, "" when there is none
FirstText(dom, j) == IF dom[j].texts = <<>> THEN <<>> ELSE dom[j].texts[1]
HasAttr(a, arg) == a # <<>> /\ Contains(a[1], arg)

\* whether element j satisfies the predicate of query st
Satisfies(dom, j, st) ==
  CASE st.test = "text()=" -> \E t \in 1..Len(dom[j].texts) : dom[j].texts[t] = st.arg
    [] st.test = "contains(text())" -> Contains(FirstText(dom, j), st.arg)
    [] st.test = "contains(translate(text()))" -> Contains(Lower(FirstText(dom, j)), st.arg)
    [] st.test = "attributes" -> \/ HasAttr(dom[j].attrs.title, st.arg)
                                 \/ HasAttr(dom[j].attrs.alt, st.arg)
                                 \/ HasAttr(dom[j].attrs.placeholder, st.arg)
    [] st.test = "contains(.)" -> Contains(StringValue(dom, j), st.arg)
    [] OTHER -> FALSE

\* driver.find_elements(By.XPATH, xpath) for the i-th query: the elements that
\* satisfy it, in document order
FindElements(dom, search_text, i) ==
  LET T(j) == Satisfies(dom, j, SearchStrategies(search_text)[i])
  IN  SelectSeq([j \in 1..Len(dom) |-> j], T)

\* getElementXPath of the locator script
RECURSIVE ScriptXPath(_, _)
ScriptXPath(dom, j) ==
  IF j = 0 THEN <<EmptySeg, EmptySeg, Lbl("*[@id=]", "undefined", 0)>>
  ELSE IF dom[j].id # "" THEN <<EmptySeg, EmptySeg, Lbl("*[@id=]", dom[j].id, 0)>>
  ELSE IF dom[j].tag = "body" THEN <<EmptySeg, Lbl("html", "", 0), Lbl("body", "", 0)>>
  ELSE LET ix == Cardinality({c \in 1..(j - 1) : /\ dom[c].parent = dom[j].parent
                                                  /\ dom[c].tag = dom[j].tag})
       IN  Append(ScriptXPath(dom, dom[j].parent), Lbl(dom[j].tag, "", ix + 1))

\* element j as the search pass handles it
PageElement(dom, j) ==
  Element(dom[j].eid, dom[j].tag, dom[j].id,
          Truncate(StringValue(dom, j), SnippetLen), ScriptXPath(dom, j))

(***************************************************************************)
(* A call of _search_in_current_context in the top-level document of a     *)
(* page whose content is known: each query returns the elements that        *)
(* satisfy it, and the driver may fail at any query or element.             *)
(***************************************************************************)
\* _search_in_current_context(q, ["main_page"]) is called on page d
QueryCall(d, q) ==
  /\ search_pc = "idle"
  /\ page_dom = <<>>
  /\ search_pc' = "strategies"
  /\ strategy' = 0
  /\ found_elements' = <<>>
  /\ page_dom' = d
  /\ query' = q
  /\ todo' = <<>>
  /\ returned' = {}
  /\ failures' = {}
  /\ UNCHANGED <<web, scans_left, faults, seen>>
  /\ UNCHANGED not_query_vars

\* the next round of "for i, xpath in enumerate(search_strategies)":
\* find_elements returns the query's elements, or raises ("continue")
QueryRun(ok) ==
  /\ search_pc = "strategies"
  /\ page_dom # <<>>
  /\ strategy < NumStrategies
  /\ ok \/ faults < MaxFaults
  /\ faults' = IF ok THEN faults ELSE faults + 1
  /\ strategy' = strategy + 1
  /\ LET elements == FindElements(page_dom, query, strategy + 1)
     IN  IF ok
         THEN /\ todo' = elements
              /\ returned' = returned \cup
                   {<<strategy + 1, page_dom[elements[j]].eid>> : j \in 1..Len(elements)}
              /\ search_pc' = "elements"
         ELSE UNCHANGED <<todo, returned, search_pc>>
  /\ failures' = IF ok THEN failures ELSE failures \cup {"query"}
  /\ UNCHANGED <<web, scans_left, found_elements, seen, page_dom, query>>
  /\ UNCHANGED not_query_vars

\* one round of "for element in elements": reading tag_name or text raises
\* (~read, "continue"), or the locator script fails (~script, "//iframe")
QueryElement(read, script) ==
  /\ search_pc = "elements"
  /\ page_dom # <<>>
  /\ todo # <<>>
  /\ LET h == Hit(PageElement(page_dom, Head(todo)), read, script)
     IN  /\ faults + FaultOf(h) <= MaxFaults
         /\ faults' = faults + FaultOf(h)
         /\ found_elements' = HandleElement(found_elements, strategy, h, query,
                                            <<MainPage>>, DefaultContent)
  /\ todo' = Tail(todo)
  /\ failures' = failures \cup (IF read THEN {} ELSE {"read"})
                           \cup (IF script THEN {} ELSE {"script"})
  /\ UNCHANGED <<web, scans_left, search_pc, strategy, seen, page_dom, query, returned>>
  /\ UNCHANGED not_query_vars

\* the elements of the running query are used up
QueryElementsDone ==
  /\ search_pc = "elements"
  /\ page_dom # <<>>
  /\ todo = <<>>
  /\ search_pc' = "strategies"
  /\ UNCHANGED <<web, scans_left, faults, strategy, found_elements, seen>>
  /\ UNCHANGED query_vars
  /\ UNCHANGED not_query_vars

\* "return found_elements"
QueryReturn ==
  /\ search_pc = "strategies"
  /\ page_dom # <<>>
  /\ strategy = NumStrategies
  /\ search_pc' = "returned"
  /\ UNCHANGED <<web, scans_left, faults, strategy, found_elements, seen>>
  /\ UNCHANGED query_vars
  /\ UNCHANGED not_query_vars

QueryNext ==
  \/ \E d \in Pages, q \in Queries : QueryCall(d, q)
  \/ \E ok \in BOOLEAN : QueryRun(ok)
  \/ QueryElement(TRUE, TRUE)
  \/ QueryElement(TRUE, FALSE)
  \/ QueryElement(FALSE, TRUE)
  \/ QueryElementsDone
  \/ QueryReturn

SpecQuery == SearchInit /\ [][QueryNext]_vars

(***************************************************************************)
(* The web front end (src/web_app.py) for one session: the request         *)
(* handlers and the background thread run_scan_background, which creates a  *)
(* scanner, calls its scan_page and cleans up.  A stop_scan request runs     *)
(* step by step beside the thread.  Driver commands issued after stop_scan   *)
(* has quit the browser fail or not like any other command.                 *)
(***************************************************************************)
\* stop_scan requests in one behaviour
MaxStops == 2
AppDocs == {Doc("empty", 0), Doc("chain", 2)}
Fields == {EmptyStr, Str("x")}

\* ComprehensiveIframeScanner.close: "if self.driver: self.driver.quit()";
\* self.driver is assigned only by _setup_driver
CloseNothing(drv, n) == [driver |-> drv, quits |-> n]
Close(drv, n) ==
  IF drv = "none" THEN [driver |-> drv, quits |-> n]
  ELSE [driver |-> "quit", quits |-> n + 1]

\* the entry start_scan creates
NewSession(url, html_source, search_text) ==
  [status |-> "initializing", url |-> url, html_source |-> html_source,
   search_text |-> search_text, results |-> <<>>, error |-> <<>>]
\* update_scan_status: "if session_id in scan_sessions"
UpdateScanStatus(sess, status) ==
  IF sess = <<>> THEN sess ELSE <<[sess[1] EXCEPT !.status = status]>>
\* process_scan_results
ProcessScanResults(rep) ==
  [summary |-> [total_iframes |-> rep.scan_summary.total_iframes_found,
                accessible_iframes |-> rep.scan_summary.accessible_iframes,
                inaccessible_iframes |-> rep.scan_summary.inaccessible_iframes,
                total_matches |-> IF rep.search_results = <<>> THEN 0
                                  ELSE rep.search_results[1].total_locations_found],
   iframes |-> Len(rep.iframe_details),
   matches |-> IF rep.search_results = <<>> THEN 0
               ELSE Len(rep.search_results[1].locations)]
Respond(request, code, status, results) ==
  [request |-> request, code |-> code, status |-> status, results |-> results]

app_rest == <<web, scans_left, faults>>
thread_vars == <<thread, scanner, driver, quits, registered>>

\* POST /api/start-scan
StartScan(url, html_source, search_text) ==
  /\ session = <<>>
  /\ IF (~Truthy(url) /\ ~Truthy(html_source)) \/ ~Truthy(search_text)
     THEN /\ response' = Respond("start", 400, "", <<>>)
          /\ UNCHANGED <<session, thread>>
     ELSE /\ session' = <<NewSession(url, html_source, search_text)>>
          /\ thread' = "start"
          /\ response' = Respond("start", 200, "", <<>>)
  /\ <<session, response>>' # <<session, response>>
  /\ UNCHANGED <<registered, scanner, driver, quits, stop_pc, stops_left>>
  /\ UNCHANGED <<app_rest, scanner_vars, pass_vars, query_vars, main_vars, dom_vars>>

\* GET /api/scan-status/<session_id>
GetScanStatus ==
  /\ response' = IF session = <<>> THEN Respond("status", 404, "", <<>>)
                 ELSE Respond("status", 200, session[1].status, <<>>)
  /\ response' # response
  /\ UNCHANGED <<session, stop_pc, stops_left, thread_vars>>
  /\ UNCHANGED <<app_rest, scanner_vars, pass_vars, query_vars, main_vars, dom_vars>>

\* GET /api/scan-results/<session_id>
GetScanResults ==
  /\ response' = IF session = <<>> THEN Respond("results", 404, "", <<>>)
                 ELSE IF session[1].status # "completed"
                 THEN Respond("results", 400, session[1].status, <<>>)
                 ELSE Respond("results", 200, session[1].status, session[1].results)
  /\ response' # response
  /\ UNCHANGED <<session, stop_pc, stops_left, thread_vars>>
  /\ UNCHANGED <<app_rest, scanner_vars, pass_vars, query_vars, main_vars, dom_vars>>

\* run_scan_background up to the creation of the scanner
ThreadInitializing ==
  /\ thread = "start"
  /\ session' = UpdateScanStatus(session, "initializing")
  /\ thread' = "create"
  /\ UNCHANGED <<registered, scanner, driver, quits, stop_pc, stops_left, response>>
  /\ UNCHANGED <<app_rest, scanner_vars, pass_vars, query_vars, main_vars, dom_vars>>

\* scanner = ComprehensiveIframeScanner(...): _setup_driver starts the browser
\* or raises
ThreadCreateScanner(ok) ==
  /\ thread = "create"
  /\ IF ok
     THEN /\ scanner' = "made"
          /\ driver' = "live"
          /\ thread' = "register"
     ELSE /\ thread' = "except"
          /\ UNCHANGED <<scanner, driver>>
  /\ UNCHANGED <<session, registered, quits, stop_pc, stops_left, response>>
  /\ UNCHANGED <<app_rest, scanner_vars, pass_vars, query_vars, main_vars, dom_vars>>

\* active_scanners[session_id] = scanner
ThreadRegister ==
  /\ thread = "register"
  /\ registered' = TRUE
  /\ thread' = "loading"
  /\ UNCHANGED <<session, scanner, driver, quits, stop_pc, stops_left, response>>
  /\ UNCHANGED <<app_rest, scanner_vars, pass_vars, query_vars, main_vars, dom_vars>>

\* the phases announced before and after scan_page
NextPhaseUnstored(ph) ==
  CASE ph = "loading" -> "discovering"
    [] ph = "discovering" -> "searching"
    [] ph = "searching" -> "call"
    [] ph = "finalizing" -> "completed"
    [] ph = "completed" -> "cleanup"
    [] OTHER -> ph
NextPhase(ph) ==
  CASE ph = "loading" -> "discovering"
    [] ph = "discovering" -> "searching"
    [] ph = "searching" -> "call"
    [] ph = "finalizing" -> "store"
    [] ph = "completed" -> "cleanup"
    [] OTHER -> ph
ThreadUpdateStatus ==
  /\ thread \in {"loading", "discovering", "searching", "finalizing", "completed"}
  /\ session' = UpdateScanStatus(session, thread)
  /\ thread' = NextPhase(thread)
  /\ UNCHANGED <<registered, scanner, driver, quits, stop_pc, stops_left, response>>
  /\ UNCHANGED <<app_rest, scanner_vars, pass_vars, query_vars, main_vars, dom_vars>>

\* "report = scanner.scan_page(...)" is reached: the call itself is ScanPage
ThreadCallScan ==
  /\ thread = "call"
  /\ thread' = "scanning"
  /\ scans_left' = 1
  /\ UNCHANGED <<session, registered, scanner, driver, quits, stop_pc, stops_left,
                 response>>
  /\ UNCHANGED <<web, faults, scanner_vars, pass_vars, query_vars, main_vars, dom_vars>>

\* scan_page has returned its report, or raised
ThreadScanDone ==
  /\ thread = "scanning"
  /\ scans_left = 0
  /\ pc = "idle"
  /\ thread' = IF outcome = "returned" THEN "finalizing" ELSE "except"
  /\ UNCHANGED <<session, registered, scanner, driver, quits, stop_pc, stops_left,
                 response>>
  /\ UNCHANGED <<app_rest, scanner_vars, pass_vars, query_vars, main_vars, dom_vars>>

\* scan_sessions[session_id]['results'] = process_scan_results(report)
ThreadStore ==
  /\ thread = "store"
  /\ session' = <<[session[1] EXCEPT !.results = <<ProcessScanResults(report[1])>>]>>
  /\ thread' = "completed"
  /\ UNCHANGED <<registered, scanner, driver, quits, stop_pc, stops_left, response>>
  /\ UNCHANGED <<app_rest, scanner_vars, pass_vars, query_vars, main_vars, dom_vars>>

\* "except Exception as e": the session is marked with str(e)
ThreadExcept ==
  /\ thread = "except"
  /\ session' = <<[session[1] EXCEPT
                     !.status = "error",
                     !.error = <<IF scanner = "None" THEN "SessionNotCreatedException"
                                 ELSE outcome>>]>>
  /\ thread' = "cleanup"
  /\ UNCHANGED <<registered, scanner, driver, quits, stop_pc, stops_left, response>>
  /\ UNCHANGED <<app_rest, scanner_vars, pass_vars, query_vars, main_vars, dom_vars>>

\* finally: "if scanner: scanner.close()"
ThreadCleanupClose ==
  /\ thread = "cleanup"
  /\ thread' = "cleanup_test"
  /\ IF scanner = "made"
     THEN /\ driver' = Close(driver, quits).driver
          /\ quits' = Close(driver, quits).quits
     ELSE UNCHANGED <<driver, quits>>
  /\ UNCHANGED <<session, registered, scanner, stop_pc, stops_left, response>>
  /\ UNCHANGED <<app_rest, scanner_vars, pass_vars, query_vars, main_vars, dom_vars>>

\* finally: "if session_id in active_scanners:"
ThreadCleanupTest ==
  /\ thread = "cleanup_test"
  /\ thread' = IF registered THEN "cleanup_del" ELSE "done"
  /\ UNCHANGED <<session, registered, scanner, driver, quits, stop_pc, stops_left,
                 response>>
  /\ UNCHANGED <<app_rest, scanner_vars, pass_vars, query_vars, main_vars, dom_vars>>

\* finally: "del active_scanners[session_id]"; a missing key raises KeyError
\* out of the thread
ThreadCleanupDel ==
  /\ thread = "cleanup_del"
  /\ thread' = IF registered THEN "done" ELSE "KeyError"
  /\ registered' = FALSE
  /\ UNCHANGED <<session, scanner, driver, quits, stop_pc, stops_left, response>>
  /\ UNCHANGED <<app_rest, scanner_vars, pass_vars, query_vars, main_vars, dom_vars>>

\* POST /api/stop-scan/<session_id>: "if session_id in active_scanners:"
StopTest ==
  /\ stop_pc = "idle"
  /\ stops_left > 0
  /\ stops_left' = stops_left - 1
  /\ stop_pc' = IF registered THEN "close" ELSE "status"
  /\ UNCHANGED <<session, response, thread_vars>>
  /\ UNCHANGED <<app_rest, scanner_vars, pass_vars, query_vars, main_vars, dom_vars>>

\* "scanner = active_scanners[session_id]; scanner.close()"; a missing key
\* raises KeyError into the handler's except clause (response 500)
StopClose ==
  /\ stop_pc = "close"
  /\ IF registered
     THEN /\ driver' = Close(driver, quits).driver
          /\ quits' = Close(driver, quits).quits
          /\ stop_pc' = "del"
          /\ UNCHANGED response
     ELSE /\ response' = Respond("stop", 500, "", <<>>)
          /\ stop_pc' = "idle"
          /\ UNCHANGED <<driver, quits>>
  /\ UNCHANGED <<session, registered, thread, scanner, stops_left>>
  /\ UNCHANGED <<app_rest, scanner_vars, pass_vars, query_vars, main_vars, dom_vars>>

\* "del active_scanners[session_id]"
StopDel ==
  /\ stop_pc = "del"
  /\ IF registered
     THEN /\ stop_pc' = "status"
          /\ UNCHANGED response
     ELSE /\ response' = Respond("stop", 500, "", <<>>)
          /\ stop_pc' = "idle"
  /\ registered' = FALSE
  /\ UNCHANGED <<session, thread, scanner, driver, quits, stops_left>>
  /\ UNCHANGED <<app_rest, scanner_vars, pass_vars, query_vars, main_vars, dom_vars>>

\* "if session_id in scan_sessions: ...['status'] = 'stopped'", and the response
StopStatus ==
  /\ stop_pc = "status"
  /\ session' = UpdateScanStatus(session, "stopped")
  /\ response' = Respond("stop", 200, "", <<>>)
  /\ stop_pc' = "idle"
  /\ UNCHANGED <<stops_left, thread_vars>>
  /\ UNCHANGED <<app_rest, scanner_vars, pass_vars, query_vars, main_vars, dom_vars>>

\* the call of scan_page run_scan_background makes: "if url: ... else: ..."
ThreadScanPage(d, loadOk) ==
  /\ thread = "scanning"
  /\ IF Truthy(session[1].url)
     THEN ScanPage(session[1].url, None, session[1].search_text, d, loadOk)
     ELSE ScanPage(None, session[1].html_source, session[1].search_text, d, loadOk)

AppInitial ==
  /\ web = AppDocs
  /\ scans_left = 0
  /\ ScannerInit
  /\ PassInit
  /\ AppInit
  /\ stops_left = MaxStops
  /\ NoMain
  /\ NoDom

AppNext ==
  \/ \E u \in Fields, h \in Fields, t \in Fields : StartScan(u, h, t)
  \/ GetScanStatus
  \/ GetScanResults
  \/ StopTest
  \/ StopClose
  \/ StopDel
  \/ StopStatus
  \/ ThreadInitializing
  \/ \E ok \in BOOLEAN : ThreadCreateScanner(ok)
  \/ ThreadRegister
  \/ ThreadUpdateStatus
  \/ ThreadCallScan
  \/ \E d \in web, ok \in BOOLEAN : ThreadScanPage(d, ok)
  \/ \E fault \in Faults : ProcessFrame(fault)
  \/ ReturnNested
  \/ DiscoverReturn
  \/ SearchMain
  \/ \E ok \in BOOLEAN : SearchFrame(ok)
  \/ SearchDone
  \/ Report
  \/ ThreadScanDone
  \/ ThreadStore
  \/ ThreadExcept
  \/ ThreadCleanupClose
  \/ ThreadCleanupTest
  \/ ThreadCleanupDel

SpecApp == AppInitial /\ [][AppNext]_vars

(***************************************************************************)
(* main() of comprehensive_iframe_scanner.py: the console front end        *)
(***************************************************************************)
\* the lines the operator types, as sequences of characters
Chars(str) ==
  CASE str = "" -> <<>>
    [] str = " " -> <<" ">>
    [] str = "q" -> <<"q">>
    [] str = " q " -> <<" ", "q", " ">>
    [] str = "e.org" -> <<"e", ".", "o", "r", "g">>
    [] str = "http://" -> <<"h", "t", "t", "p", ":", "/", "/">>
    [] str = "https://" -> <<"h", "t", "t", "p", "s", ":", "/", "/">>
UrlLines == {Chars(""), Chars(" "), Chars("e.org"), Chars("http://") \o Chars("e.org")}
TextLines == {Chars(""), Chars(" "), Chars("q"), Chars(" q ")}

\* str.strip()
RECURSIVE RStrip(_)
RStrip(s) == IF s # <<>> /\ IsSpace(Last(s)) THEN RStrip(Front(s)) ELSE s
Strip(s) == RStrip(LStrip(s))
\* str.startswith(prefix)
StartsWith(s, prefix) ==
  Len(prefix) <= Len(s) /\ SubSeq(s, 1, Len(prefix)) = prefix
\* the str the characters make, as an argument of scan_page
RECURSIVE Join(_)
Join(s) == IF s = <<>> THEN "" ELSE Head(s) \o Join(Tail(s))
PyStr(s) == IF s = <<>> THEN EmptyStr ELSE Str(Join(s))

\* "x if x else None"
OrNone(x) == IF Truthy(x) THEN x ELSE None

\* "if not url.startswith(('http://', 'https://')): url = 'https://' + url"
WithScheme(url) ==
  IF StartsWith(url, Chars("http://")) \/ StartsWith(url, Chars("https://"))
  THEN url
  ELSE Chars("https://") \o url

\* url = input(...).strip(); "if not url: ... return"; the scheme is added
MainReadUrl(line) ==
  /\ main_pc = "url"
  /\ IF Strip(line) = <<>>
     THEN /\ main_pc' = "returned"
          /\ UNCHANGED main_url
     ELSE /\ main_pc' = "text"
          /\ main_url' = PyStr(WithScheme(Strip(line)))
  /\ UNCHANGED <<main_search_text, app_vars>>
  /\ UNCHANGED <<app_rest, scanner_vars, pass_vars, query_vars, dom_vars>>

\* search_text = input(...).strip()
MainReadText(line) ==
  /\ main_pc = "text"
  /\ main_search_text' = PyStr(Strip(line))
  /\ main_pc' = "create"
  /\ UNCHANGED <<main_url, app_vars>>
  /\ UNCHANGED <<app_rest, scanner_vars, pass_vars, query_vars, dom_vars>>

\* scanner = ComprehensiveIframeScanner(headless=True, timeout=20): outside the
\* try statement, so a failure of _setup_driver leaves main()
MainCreateScanner(ok) ==
  /\ main_pc = "create"
  /\ IF ok
     THEN /\ scanner' = "made"
          /\ driver' = "live"
          /\ scans_left' = 1
          /\ main_pc' = "call"
     ELSE /\ main_pc' = "raised"
          /\ UNCHANGED <<scanner, driver, scans_left>>
  /\ UNCHANGED <<session, registered, thread, quits, stop_pc, stops_left, response>>
  /\ UNCHANGED <<main_url, main_search_text>>
  /\ UNCHANGED <<web, faults, scanner_vars, pass_vars, query_vars, dom_vars>>

\* report = scanner.scan_page(url, search_text if search_text else None): the
\* second positional parameter of scan_page is html_source, and search_text
\* keeps its default None
MainScanPage(d, loadOk) ==
  /\ main_pc = "call"
  /\ ScanPage(main_url, OrNone(main_search_text), None, d, loadOk)

\* scan_page has returned and print_report has printed, or the except clause
\* has printed the error
MainScanDone ==
  /\ main_pc = "call"
  /\ scans_left = 0
  /\ pc = "idle"
  /\ main_pc' = "close"
  /\ UNCHANGED <<main_url, main_search_text, app_vars>>
  /\ UNCHANGED <<app_rest, scanner_vars, pass_vars, query_vars, dom_vars>>

\* finally: scanner.close()
MainClose ==
  /\ main_pc = "close"
  /\ driver' = Close(driver, quits).driver
  /\ quits' = Close(driver, quits).quits
  /\ main_pc' = "done"
  /\ UNCHANGED <<session, registered, thread, scanner, stop_pc, stops_left, response>>
  /\ UNCHANGED <<main_url, main_search_text>>
  /\ UNCHANGED <<app_rest, scanner_vars, pass_vars, query_vars, dom_vars>>

MainInitial ==
  /\ web = TreeDocs
  /\ scans_left = 0
  /\ ScannerInit
  /\ PassInit
  /\ AppInit
  /\ stops_left = 0
  /\ main_pc = "url"
  /\ main_url = None
  /\ main_search_text = None
  /\ NoDom

\* main() and the call of scan_page it makes.  The call leaves search_text at
\* None, so of the steps after discovery only SkipSearch is enabled.
MainNext ==
  \/ \E line \in UrlLines : MainReadUrl(line)
  \/ \E line \in TextLines : MainReadText(line)
  \/ \E ok \in BOOLEAN : MainCreateScanner(ok)
  \/ \E d \in web, ok \in BOOLEAN : MainScanPage(d, ok)
  \/ \E fault \in Faults : ProcessFrame(fault)
  \/ ReturnNested
  \/ DiscoverReturn
  \/ SkipSearch
  \/ Report
  \/ MainScanDone
  \/ MainClose

SpecMain == MainInitial /\ [][MainNext]_vars

(***************************************************************************)
(* dom_scanner.py: frames of a markup found without a browser              *)
(***************************************************************************)
\* The tree BeautifulSoup(html_source, 'html.parser') builds: its elements in
\* document order, each with its tag, its parent (0 is the BeautifulSoup
\* object itself) and its attributes in the order of the markup.  The
\* BeautifulSoup object is a tag named "[document]" that has no parent.
DocumentName == "[document]"
Document == 0
NoElement == -1
El(tag, parent, attrs) == [tag |-> tag, parent |-> parent, attrs |-> attrs]
At(name, value) == [name |-> name, value |-> value]
ElName(t, el) == IF el = Document THEN DocumentName ELSE t[el].tag
ElParent(t, el) == IF el = Document THEN NoElement ELSE t[el].parent

\* <html><body><iframe src="A"></iframe></body></html>
FramePage ==
  <<El("html", 0, <<>>), El("body", 1, <<>>),
    El("iframe", 2, <<At("src", <<"A">>)>>)>>
\* <html><body><iframe src="b"></iframe><div><frame name="A b"></div>
\* <iframe title="a"></iframe></body></html>
SiblingPage ==
  <<El("html", 0, <<>>), El("body", 1, <<>>),
    El("iframe", 2, <<At("src", <<"b">>)>>),
    El("div", 2, <<>>),
    El("frame", 4, <<At("name", <<"A", " ", "b">>)>>),
    El("iframe", 2, <<At("title", <<"a">>)>>)>>
\* <iframe srcdoc="<b>A</b>b"></iframe>
SrcdocPage ==
  <<El("iframe", 0,
       <<At("srcdoc", <<"<", "b", ">", "A", "<", "/", "b", ">", "b">>)>>)>>
\* <iframe class="A b"></iframe><iframe id="A" name="b"></iframe>
ClassPage ==
  <<El("iframe", 0, <<At("class", <<"A", " ", "b">>)>>),
    El("iframe", 0, <<At("id", <<"A">>), At("name", <<"b">>)>>)>>
\* <html><frameset><frame src="a"><frame src="b"></frameset></html>
FramesetPage ==
  <<El("html", 0, <<>>), El("frameset", 1, <<>>),
    El("frame", 2, <<At("src", <<"a">>)>>),
    El("frame", 2, <<At("src", <<"b">>)>>)>>
\* <html><body><p>A</p></body></html>
NoFramePage ==
  <<El("html", 0, <<>>), El("body", 1, <<>>), El("p", 2, <<>>)>>
DomPages == {FramePage, SiblingPage, SrcdocPage, ClassPage, FramesetPage, NoFramePage}
DomQueries == {Qa, Qab, <<"a">>, <<"b">>, <<"a", " ", "B">>}

\* the elements of t, in document order, that Test accepts
Indexes(t) == [j \in 1..Len(t) |-> j]
\* soup.find_all(['iframe', 'frame'])
FindAllFrames(t) ==
  LET IsFrame(j) == t[j].tag \in {"iframe", "frame"}
  IN  SelectSeq(Indexes(t), IsFrame)
\* parent.find_all(tag, recursive=False)
FindAllChildren(t, parent, tag) ==
  LET IsChild(j) == t[j].parent = parent /\ t[j].tag = tag
  IN  SelectSeq(Indexes(t), IsChild)

\* "index = 1; for sib in same_tag_siblings: if sib is el: break; index += 1"
RECURSIVE IndexAmong(_, _)
IndexAmong(siblings, el) ==
  IF siblings = <<>> \/ Head(siblings) = el THEN 1
  ELSE 1 + IndexAmong(Tail(siblings), el)

\* a step "/tag" (index 0) or "/tag[index]" of a path
Step(tag, index) == [tag |-> tag, index |-> index]
\* the list parts of _compute_xpath: the steps from el upwards, while el is
\* not None and has a name
RECURSIVE Parts(_, _)
Parts(t, el) ==
  IF el = NoElement THEN <<>>
  ELSE IF ElParent(t, el) = NoElement THEN <<Step(ElName(t, el), 0)>>
  ELSE LET same_tag_siblings == FindAllChildren(t, ElParent(t, el), ElName(t, el))
       IN  <<IF Len(same_tag_siblings) = 1
             THEN Step(ElName(t, el), 0)
             ELSE Step(ElName(t, el), IndexAmong(same_tag_siblings, el))>>
           \o Parts(t, ElParent(t, el))
Reversed(s) == [j \in 1..Len(s) |-> s[Len(s) + 1 - j]]
\* _compute_xpath(el): ''.join(reversed(parts)) or '/'; the path "/" is the
\* path of no step
ComputeXPath(t, el) == Reversed(Parts(t, el))

\* sep.join(strings)
RECURSIVE JoinWith(_, _)
JoinWith(sep, strings) ==
  IF strings = <<>> THEN <<>>
  ELSE IF Len(strings) = 1 THEN strings[1]
  ELSE strings[1] \o sep \o JoinWith(sep, Tail(strings))
\* the words of a value, as html.parser splits the value of a multi-valued
\* attribute
RECURSIVE Words(_)
Words(s) ==
  IF LStrip(s) = <<>> THEN <<>>
  ELSE <<TakeWord(LStrip(s))>>
       \o Words(SubSeq(LStrip(s), Len(TakeWord(LStrip(s))) + 1, Len(LStrip(s))))
\* the attributes html.parser stores as lists of words, for an iframe or frame
MultiValued == {"class", "accesskey", "dropzone", "sandbox"}
\* str(v) of a value of iframe.attrs: the value, or the repr of the list
Quoted(w) == <<"'">> \o w \o <<"'">>
StrOfValue(a) ==
  IF a.name \in MultiValued
  THEN <<"[">> \o JoinWith(<<",", " ">>,
                           [j \in 1..Len(Words(a.value)) |-> Quoted(Words(a.value)[j])])
       \o <<"]">>
  ELSE a.value
\* ' '.join([str(v) for v in iframe.attrs.values()])
AttrsText(attrs) ==
  JoinWith(<<" ">>, [j \in 1..Len(attrs) |-> StrOfValue(attrs[j])])
\* iframe.get('srcdoc'): the value, or None (<<>> here, as falsy as "")
GetSrcdoc(attrs) ==
  LET IsSrcdoc(a) == a.name = "srcdoc"
  IN  IF SelectSeq(attrs, IsSrcdoc) = <<>> THEN <<>>
      ELSE SelectSeq(attrs, IsSrcdoc)[1].value
\* the strings of BeautifulSoup(srcdoc, 'html.parser'): the runs of characters
\* outside the tags
RECURSIVE Strings(_, _, _)
Strings(s, inTag, run) ==
  IF s = <<>> THEN (IF run = <<>> THEN <<>> ELSE <<run>>)
  ELSE IF inTag THEN Strings(Tail(s), Head(s) # ">", <<>>)
  ELSE IF Head(s) = "<"
  THEN (IF run = <<>> THEN <<>> ELSE <<run>>) \o Strings(Tail(s), TRUE, <<>>)
  ELSE Strings(Tail(s), FALSE, Append(run, Head(s)))
\* inner.get_text(separator=' ')
GetText(srcdoc) == JoinWith(<<" ">>, Strings(srcdoc, FALSE, <<>>))

\* the value of hit after one round of "for iframe in iframes"
FrameHit(attrs, search_text) ==
  \/ Contains(Lower(AttrsText(attrs)), Lower(search_text))
  \/ /\ GetSrcdoc(attrs) # <<>>
     /\ Contains(Lower(GetText(GetSrcdoc(attrs))), Lower(search_text))

\* find_iframe_xpaths_in_dom(html_source, search_text) up to its loop
DomCall ==
  /\ dom_pc = "idle"
  /\ dom_matches' = <<>>
  /\ dom_hits' = <<>>
  /\ dom_todo' = FindAllFrames(dom_html_source)
  /\ dom_pc' = "loop"
  /\ UNCHANGED <<dom_html_source, dom_search_text>>
  /\ UNCHANGED <<web, scans_left, faults, scanner_vars, pass_vars, query_vars,
                 app_vars, main_vars>>

\* one round of "for iframe in iframes"
DomIframe ==
  /\ dom_pc = "loop"
  /\ dom_todo # <<>>
  /\ dom_todo' = Tail(dom_todo)
  /\ IF FrameHit(dom_html_source[Head(dom_todo)].attrs, dom_search_text)
     THEN /\ dom_matches' = Append(dom_matches,
                                   ComputeXPath(dom_html_source, Head(dom_todo)))
          /\ dom_hits' = Append(dom_hits, Head(dom_todo))
     ELSE UNCHANGED <<dom_matches, dom_hits>>
  /\ UNCHANGED <<dom_pc, dom_html_source, dom_search_text>>
  /\ UNCHANGED <<web, scans_left, faults, scanner_vars, pass_vars, query_vars,
                 app_vars, main_vars>>

\* "return matches"
DomReturn ==
  /\ dom_pc = "loop"
  /\ dom_todo = <<>>
  /\ dom_pc' = "returned"
  /\ UNCHANGED <<dom_html_source, dom_search_text, dom_todo, dom_matches, dom_hits>>
  /\ UNCHANGED <<web, scans_left, faults, scanner_vars, pass_vars, query_vars,
                 app_vars, main_vars>>

\* a call with any of the pages and any of the search texts
DomInitial ==
  /\ web = {}
  /\ scans_left = 0
  /\ ScannerInit
  /\ PassInit
  /\ AppInit
  /\ stops_left = 0
  /\ NoMain
  /\ dom_pc = "idle"
  /\ dom_html_source \in DomPages
  /\ dom_search_text \in DomQueries
  /\ dom_todo = <<>>
  /\ dom_matches = <<>>
  /\ dom_hits = <<>>

DomNext ==
  \/ DomCall
  \/ DomIframe
  \/ DomReturn

SpecDom == DomInitial /\ [][DomNext]_vars

(***************************************************************************)
(* Properties                                                              *)
(***************************************************************************)
Records == 1..Len(discovered_iframes)
\* the records the running (or last) call of scan_page appended
OfThisScan(j) == discovered_iframes[j].scan = scan_no
Level(j) == Len(discovered_iframes[j].node)

C2_ContextRestored == pc = "discover" => ctx = Top.home

\* C3: when the call of _discover_all_iframes at depth 0 has returned, the
\* active context is the top-level document, whichever frames failed.
C3_BackAtTop == pc = "discovered" => ctx = DefaultContent

C3_Witness ==
  /\ pc = "discovered"
  /\ ctx = DefaultContent
  /\ \E j \in Records : Level(j) = 3 /\ discovered_iframes[j].fault = "switch"
  /\ \E j \in Records : Level(j) = 2 /\ discovered_iframes[j].content_preview # ""

\* C4 as stated: the matches attached to a frame record were found by a search
\* pass that ran with the browser inside that very frame.
C4_SearchedInOwnFrame ==
  \A j \in Records : \A m \in 1..Len(discovered_iframes[j].text_found) :
    discovered_iframes[j].text_found[m].ctx = discovered_iframes[j].node

\* C5: found_elements never holds two match records with the same
\* element_xpath, whatever the six queries return.
C5_NoDuplicateLocator ==
  \A a, b \in 1..Len(found_elements) :
    a # b => found_elements[a].element_xpath # found_elements[b].element_xpath

\* the running query has returned both elements that share the id "x", and one
\* of them is recorded
C5_Witness ==
  /\ search_pc = "elements"
  /\ {"div1", "span1"} \subseteq seen
  /\ \E a \in 1..Len(found_elements) : found_elements[a].eid \in {"div1", "span1"}
  /\ Len(found_elements) >= 2

\* C6 as stated: in a report, every frame record that is not accessible has a
\* non-empty error_message, an empty content_preview and no matches.
C6_InaccessibleRecords ==
  outcome = "returned" =>
    \A j \in 1..Len(report[1].iframe_details) :
      LET det == report[1].iframe_details[j]
      IN  ~det.is_accessible =>
            /\ det.error_message # ""
            /\ det.content_preview = ""
            /\ det.text_found_count = 0

\* C7 as stated: the report of a call of scan_page holds only records of the
\* frames that call discovered, also when the scanner was used before.
C7_FreshInventory ==
  outcome = "returned" =>
    /\ \A j \in 1..Len(report[1].iframe_details) :
         report[1].iframe_details[j].scan = scan_no
    /\ report[1].scan_summary.total_iframes_found
         = Cardinality({j \in Records : OfThisScan(j)})

\* a step that is a call of scan_page with neither a url nor a source
CalledWithNeither == scan_no' = scan_no + 1 /\ ~call'.given
FailsUntouched ==
  /\ outcome' = "ValueError"
  /\ pc' = "idle"
  /\ page' = page
  /\ discovered_iframes' = discovered_iframes
  /\ search_results' = search_results

\* C8 as stated: scan_page with neither a url nor a source fails, loads no
\* document, runs no discovery or search, changes neither discovered_iframes
\* nor search_results, and issues no driver command at all.
C8_NoBrowserInteraction ==
  [][CalledWithNeither => (FailsUntouched /\ issued' = {})]_vars

\* C8 amended: as stated, except that the call issues one driver command, the
\* switch to the top-level document of its finally clause.
C8_OnlyContextReset ==
  [][CalledWithNeither =>
       (FailsUntouched /\ issued' \subseteq {"default_content"}
                       /\ ctx' = DefaultContent)]_vars

\* a scanner that has scanned a page with frames is called with neither
C8_Witness ==
  /\ outcome = "ValueError"
  /\ ~call.given
  /\ issued = {"default_content"}
  /\ Len(discovered_iframes) > 0
  /\ page # Blank

\* C9 as stated: a frame whose switch failed has one record, and every later
\* sibling the driver does nothing wrong at is recorded with its own
\* attributes, locator and accessibility.
C9_SiblingsKeepTheirRecords ==
  /\ \A a, b \in Records :
       (a # b /\ OfThisScan(a) /\ OfThisScan(b))
         => discovered_iframes[a].node # discovered_iframes[b].node
  /\ \A a, b \in Records :
       LET failed == discovered_iframes[a]
           later == discovered_iframes[b]
       IN  (/\ a < b /\ OfThisScan(a) /\ OfThisScan(b)
            /\ Front(failed.node) = Front(later.node)
            /\ failed.fault = "switch"
            /\ later.fault = "none")
             => /\ later.is_accessible
                /\ later.id = Attr(page, later.node).id
                /\ later.name = Attr(page, later.node).name
                /\ later.xpath = GenerateElementXPath(FrameElement(page, later.node), TRUE)

\* C10: every record's hierarchy_path starts with "main_page" and is one
\* longer than the frame's nesting level, and one longer than the path of the
\* activation that enumerated the frame, whose own path is one longer than
\* the nesting level of the context it enumerated.
C10_PathLength ==
  /\ \A j \in Records :
       /\ discovered_iframes[j].hierarchy_path[1] = MainPage
       /\ Len(discovered_iframes[j].hierarchy_path) = Level(j) + 1
  /\ \A s \in 1..Len(stack) :
       /\ Len(stack[s].current_path) = Len(stack[s].home) + 1
       /\ stack[s].depth = Len(stack[s].home)
       /\ \A j \in Records :
            (OfThisScan(j) /\ Front(discovered_iframes[j].node) = stack[s].home)
              => Len(discovered_iframes[j].hierarchy_path)
                   = Len(stack[s].current_path) + 1

C10_Witness ==
  /\ pc = "discover"
  /\ Len(stack) = 3
  /\ \E j \in Records : Level(j) = 3 /\ Len(discovered_iframes[j].hierarchy_path) = 4
  /\ \E j \in Records : discovered_iframes[j].fault = "xpath" /\ Level(j) = 2

Matches == 1..Len(found_elements)
PageNodes == 1..Len(page_dom)
\* the record's label is that of the first query that returned its element
LowestLabel(m) ==
  /\ <<found_elements[m].strategy_used.n, found_elements[m].eid>> \in returned
  /\ \A i \in 1..(found_elements[m].strategy_used.n - 1) :
       <<i, found_elements[m].eid>> \notin returned
\* element j holds the query in its title, alt or placeholder, not in its text
AttributeOnly(j) ==
  /\ Satisfies(page_dom, j, SearchStrategies(query)[5])
  /\ ~Contains(StringValue(page_dom, j), query)
RecordedOnceUnder5(j) ==
  /\ Cardinality({m \in Matches : found_elements[m].eid = page_dom[j].eid}) = 1
  /\ \A m \in Matches :
       found_elements[m].eid = page_dom[j].eid
         => found_elements[m].strategy_used = Lbl("Strategy ", "", 5)
\* none of the queries 1 to 4 returns element j
TextQueriesMiss(j) ==
  \A i \in 1..4 : ~Satisfies(page_dom, j, SearchStrategies(query)[i])
OwnLocator(j) ==
  \A o \in PageNodes : o # j => ScriptXPath(page_dom, o) # ScriptXPath(page_dom, j)

IsPrefix(a, b) == Len(a) <= Len(b) /\ SubSeq(b, 1, Len(a)) = a
\* a step of a running call of _search_in_current_context
PassStep == search_pc \in {"strategies", "elements"}

\* C12: in every step of a running search pass, whether or not the driver
\* fails in it, the matches collected so far are kept, the strategy loop stays
\* at its query or moves to the next one, an element of the running query is
\* handled and the loop goes on with the rest of them in order, and the call
\* returns, normally, only after the sixth query.
C12_FailuresSkipped ==
  [][PassStep =>
       /\ IsPrefix(found_elements, found_elements')
       /\ strategy' \in {strategy, strategy + 1}
       /\ search_pc' \in {"strategies", "elements", "returned"}
       /\ search_pc' = "returned" => strategy = NumStrategies
       /\ (search_pc = "elements" /\ todo # <<>>)
            => (todo' = Tail(todo) /\ search_pc' = "elements" /\ strategy' = strategy)
       /\ (search_pc = "strategies" /\ strategy < NumStrategies)
            => strategy' = strategy + 1]_vars

\* <p>A b</p> searched for "A": the second query failed, so <p> was recorded
\* under the third; in the sixth the read of <html> failed and <body>, the
\* next element, was recorded after the match already collected
C12_Witness ==
  /\ search_pc = "returned"
  /\ page_dom = PlainPage
  /\ query = Qa
  /\ \A e \in {"html", "body", "p"} : <<2, e>> \notin returned
  /\ <<6, "html">> \in returned
  /\ Len(found_elements) = 2
  /\ found_elements[1].eid = "p"
  /\ found_elements[1].strategy_used = Lbl("Strategy ", "", 3)
  /\ found_elements[2].eid = "body"

Locations == search_results[1].locations

\* C13: in every step of the loop of _search_text_everywhere the attempt
\* starts and ends in the top-level document, the matches in the aggregate are
\* kept, the loop moves on to the next record also when the navigation into a
\* frame failed, and it ends only after the last record, in the top-level
\* document.
C13_SearchPassContinues ==
  [][pc = "search" =>
       /\ ctx = DefaultContent
       /\ ctx' = DefaultContent
       /\ IsPrefix(Locations, search_results'[1].locations)
       /\ k < Len(discovered_iframes) => (k' = k + 1 /\ pc' = "search")
       /\ pc' # "search" => (k = Len(discovered_iframes) /\ pc' = "report")]_vars

\* the pass over the frames of "nested" has ended: the first frame's matches
\* are in the aggregate, the navigation to the third record's frame (by a name
\* no top-level frame has) and that to the second (its switch raised) failed,
\* and the loop went on to the fourth
C13_Witness ==
  /\ pc = "report"
  /\ page = Doc("nested", 0)
  /\ Len(discovered_iframes) = 4
  /\ k = 4
  /\ \A j \in Records : discovered_iframes[j].is_accessible
  /\ faults = 1
  /\ discovered_iframes[1].text_found # <<>>
  /\ discovered_iframes[2].text_found = <<>>
  /\ discovered_iframes[3].text_found = <<>>
  /\ Locations = discovered_iframes[1].text_found
  /\ ctx = DefaultContent

Summary == report[1].scan_summary

\* C14: in a returned report total_iframes_found is the number of entries of
\* iframe_details and the sum of accessible_iframes and inaccessible_iframes;
\* after the first scan of a scanner, of a document without frames, the
\* inventory is empty and the three counts are 0.
C14_CountsAgree ==
  outcome = "returned" =>
    /\ Summary.total_iframes_found = Len(report[1].iframe_details)
    /\ Summary.total_iframes_found
         = Summary.accessible_iframes + Summary.inaccessible_iframes
    /\ (scan_no = 1 /\ Nodes(page) = {})
         => /\ discovered_iframes = <<>>
            /\ report[1].iframe_details = <<>>
            /\ Summary.total_iframes_found = 0
            /\ Summary.accessible_iframes = 0
            /\ Summary.inaccessible_iframes = 0

\* a report with accessible and inaccessible frames
C14_Witness ==
  /\ outcome = "returned"
  /\ Summary.accessible_iframes >= 2
  /\ Summary.inaccessible_iframes >= 1
  /\ Summary.total_iframes_found = Len(discovered_iframes)

\* the first report of a scanner, for a page without frames
C14_WitnessEmpty ==
  /\ outcome = "returned"
  /\ scan_no = 1
  /\ Nodes(page) = {}
  /\ page # Blank
  /\ Summary.total_iframes_found = 0

\* C15 as stated: however often close() is called on a scanner (by stop_scan,
\* by the cleanup of the background thread), the release of the browser
\* process, driver.quit(), is issued once at most.
C15_QuitIssuedOnce == quits <= 1

\* run_scan_background has ended: normally, or with the KeyError of its cleanup
ThreadEnded == thread \in {"done", "KeyError"}
\* creating the scanner raised, or scan_page did
Raised == scanner = "None" \/ outcome # "returned"
CleanedUp ==
  /\ ThreadEnded => (~registered /\ (scanner = "made" => driver = "quit"))
  /\ (pc = "idle" /\ outcome \in {"returned", "ValueError", "WebDriverException"})
       => ctx = DefaultContent

\* C16 as stated: when run_scan_background has ended after the creation of
\* the scanner or scan_page raised, the session's status is "error", its error
\* field holds the message and its results are empty; when it has ended in any
\* way, a scanner that was created is closed and active_scanners has no entry
\* of the session; and when scan_page has returned or raised, the context is
\* the top-level document.
C16_ErrorSessionAndCleanup ==
  /\ (ThreadEnded /\ Raised)
       => /\ session[1].status = "error"
          /\ session[1].error # <<>>
          /\ session[1].results = <<>>
  /\ CleanedUp

\* C16 amended: as stated, except that the status is "error" only until a
\* stop_scan request sets it to "stopped".
C16_ErrorUnlessStopped ==
  /\ (ThreadEnded /\ Raised)
       => /\ \/ session[1].status = "error"
             \/ session[1].status = "stopped" /\ stops_left < MaxStops
          /\ session[1].error # <<>>
          /\ session[1].results = <<>>
  /\ CleanedUp

\* scan_page raised in a thread no stop request interfered with
C16_Witness ==
  /\ thread = "done"
  /\ outcome = "WebDriverException"
  /\ stops_left = MaxStops
  /\ session[1].status = "error"
  /\ session[1].error = <<"WebDriverException">>
  /\ scanner = "made"
  /\ driver = "quit"
  /\ ~registered

\* C17 as stated: the hierarchy_path of the record of a frame nested in a
\* recorded frame, without its last label, is the hierarchy_path of the
\* enclosing frame's record.
C17_PathExtendsParentPath ==
  \A a, b \in Records :
    (/\ OfThisScan(a) /\ OfThisScan(b)
     /\ Front(discovered_iframes[b].node) = discovered_iframes[a].node)
      => Front(discovered_iframes[b].hierarchy_path)
           = discovered_iframes[a].hierarchy_path

RECURSIVE SumCounts(_)
SumCounts(details) ==
  IF details = <<>> THEN 0
  ELSE Head(details).text_found_count + SumCounts(Tail(details))
MainPageMatches(locs) ==
  LET OnMain(m) == m.location_path = <<MainPage>> IN Len(SelectSeq(locs, OnMain))

\* C18: the bundle's total_locations_found is the length of its locations, and
\* in the first report of a scanner the text_found_count of the frame records
\* add up to the locations found outside the main page.
C18_CountsMatchLocations ==
  /\ search_results # <<>>
       => search_results[1].total_locations_found = Len(Locations)
  /\ (outcome = "returned" /\ scan_no = 1 /\ report[1].search_results # <<>>)
       => LET bundle == report[1].search_results[1]
          IN  /\ bundle.total_locations_found = Len(bundle.locations)
              /\ SumCounts(report[1].iframe_details)
                   = bundle.total_locations_found - MainPageMatches(bundle.locations)

\* a first report with matches in the main page and in a frame
C18_Witness ==
  /\ outcome = "returned"
  /\ scan_no = 1
  /\ report[1].search_results # <<>>
  /\ MainPageMatches(report[1].search_results[1].locations) >= 1
  /\ SumCounts(report[1].iframe_details) >= 1
  /\ \E j \in Records : ~discovered_iframes[j].is_accessible

SingleToken(q) == q # <<>> /\ \A j \in 1..Len(q) : ~IsSpace(q[j])
NoStrategy3 ==
  \A m \in Matches : found_elements[m].strategy_used # Lbl("Strategy ", "", 3)

\* C19 as stated: for a query that is one token without whitespace the third
\* query is the second, and a pass in which no read of an element has failed
\* has no match record labeled "Strategy 3".
C19_NoThirdLabel ==
  SingleToken(query) =>
    /\ SearchStrategies(query)[3] = SearchStrategies(query)[2]
    /\ "read" \notin failures => NoStrategy3

\* C19 amended: the same for a pass in which no driver command has failed:
\* no query, no read of an element and no run of the locator script.
C19_NoThirdLabelUnlessFailure ==
  SingleToken(query) =>
    /\ SearchStrategies(query)[3] = SearchStrategies(query)[2]
    /\ failures = {} => NoStrategy3

\* <p>A b</p> searched for "A": the third query returned <p>, which the second
\* had recorded
C19_Witness ==
  /\ search_pc = "returned"
  /\ query = Qa
  /\ page_dom = PlainPage
  /\ failures = {}
  /\ <<3, "p">> \in returned
  /\ \E m \in Matches : /\ found_elements[m].eid = "p"
                        /\ found_elements[m].strategy_used = Lbl("Strategy ", "", 2)

\* C20: a session whose status is "completed" has results, and a results
\* request is answered with results (code 200) only when it finds the status
\* "completed", and with an error and no results otherwise.
C20_CompletedHasResults ==
  /\ (session # <<>> /\ session[1].status = "completed") => session[1].results # <<>>
  /\ response.request = "results"
       => IF response.code = 200
          THEN response.status = "completed" /\ response.results # <<>>
          ELSE /\ response.code \in {400, 404}
               /\ response.status # "completed"
               /\ response.results = <<>>

\* results were handed out, a stop request came in, and the thread has ended
C20_Witness ==
  /\ response.request = "results"
  /\ response.code = 200
  /\ response.results # <<>>
  /\ response.results[1].summary.total_iframes = 2
  /\ stops_left < MaxStops
  /\ thread = "done"

\* C21 as stated: once the status of the session is "stopped", no step of the
\* background thread or of any handler changes it.
C21_StoppedIsFinal ==
  [][(session # <<>> /\ session[1].status = "stopped")
       => session'[1].status = "stopped"]_vars

\* C22 as stated: every step that executes "del active_scanners[session_id]",
\* in the cleanup of the thread or in stop_scan, finds the entry of the session
\* still registered.
C22_DelFindsEntry ==
  [][((thread = "cleanup_del" /\ thread' # "cleanup_del")
        \/ (stop_pc = "del" /\ stop_pc' # "del")) => registered]_vars

\* C23 as stated: when a non-empty search text was entered in main(), the call
\* of scan_page it makes has that text as its search_text, and the report the
\* call returns has a search_results bundle whose search_text is that text.
C23_MainPassesSearchText ==
  (main_pc \in {"call", "close", "done"} /\ scan_no > 0
     /\ Truthy(main_search_text))
  => /\ call.search_text = main_search_text
     /\ outcome = "returned"
          => /\ report[1].search_results # <<>>
             /\ report[1].search_results[1].search_text = main_search_text

\* some query of the pass has returned element j
ReturnedBySome(j) ==
  \E i \in 1..NumStrategies : <<i, page_dom[j].eid>> \in returned
RecordsOf(j) == {m \in Matches : found_elements[m].eid = page_dom[j].eid}

\* C24 as stated: when the pass has returned and every read of a tag and a
\* text has worked, each element that some query returned has exactly one
\* match record, also when another element has its locator (a shared id, or
\* the "//iframe" of a failed locator script).
C24_NoElementDropped ==
  (search_pc = "returned" /\ "read" \notin failures)
    => \A j \in PageNodes : ReturnedBySome(j) => Cardinality(RecordsOf(j)) = 1

\* the elements a path selects when it is followed from the root of the
\* parsed tree: a step "/tag" selects the children with that tag, a step
\* "/tag[n]" the n-th of them
RECURSIVE Follow(_, _, _)
Follow(t, from, path) ==
  IF path = <<>> THEN from
  ELSE Follow(t,
              UNION {LET c == FindAllChildren(t, el, Head(path).tag)
                     IN  IF Head(path).index = 0 THEN {c[j] : j \in 1..Len(c)}
                         ELSE {c[j] : j \in {Head(path).index} \cap (1..Len(c))}
                     : el \in from},
              Tail(path))
\* the frame has an attribute value, or a srcdoc text, that contains the search
\* text when letter case is ignored
HoldsText(t, j, search_text) ==
  \/ \E a \in 1..Len(t[j].attrs) :
       Contains(Lower(t[j].attrs[a].value), Lower(search_text))
  \/ Contains(Lower(GetText(GetSrcdoc(t[j].attrs))), Lower(search_text))
FramesHolding(t, search_text) ==
  LET Holds(j) == HoldsText(t, j, search_text)
  IN  SelectSeq(FindAllFrames(t), Holds)

\* C25 as stated: the call returns one path per frame that holds the search
\* text, in document order; every step of a path names an element of the
\* document, and the path followed from the root of the parsed tree selects
\* the frame it was computed for and nothing else.
C25_PathsReachFrames ==
  /\ dom_pc = "returned"
       => dom_hits = FramesHolding(dom_html_source, dom_search_text)
  /\ \A m \in 1..Len(dom_matches) :
       /\ \A j \in 1..Len(dom_matches[m]) : dom_matches[m][j].tag # DocumentName
       /\ Follow(dom_html_source, {Document}, dom_matches[m]) = {dom_hits[m]}

=============================================================================
